---------------------------- MODULE Spec2Model ----------------------------
(***************************************************************************)
(* Model of Scripts/audit_i18n.py: the line parser of a .strings resource  *)
(* file (LocFile.parse), the placeholder extractor (get_placeholders) and  *)
(* the audit driver (run_audit).                                           *)
(*                                                                         *)
(* Text is a sequence of one-character strings.  A file is a sequence of   *)
(* lines without their terminators; readlines() gives every line back     *)
(* with its "\n".                                                          *)
(***************************************************************************)
EXTENDS Integers, Sequences, FiniteSets, Bags, TLC

VARIABLES
    \* ---- LocFile (one parse, specification SpecParse) ----
    file,          \* the file at self.path: [exists, content]
    lines,         \* lines = f.readlines()
    lineno,        \* lineno of the loop in parse (0 before the first line)
    self,          \* [kv_map, line_map, errors, warnings] of the LocFile
    ppc,           \* position in LocFile.parse
    \* ---- run_audit (specification Spec) ----
    base,          \* the file at base_path: [exists, content]
    entries,       \* os.listdir(resources_dir)
    pc,            \* position in run_audit
    master,        \* LocFile of the base language
    lproj_dirs,    \* filtered and sorted directory names
    idx,           \* number of elements of lproj_dirs already taken by the for loop
    target,        \* LocFile of the current target
    global_issues,
    out,           \* what was printed, one record per target processed
    exit_code      \* argument of sys.exit, -1 while the process runs

parseVars == <<file, lines, lineno, self, ppc>>
auditVars == <<base, entries, pc, master, lproj_dirs, idx, target, global_issues,
               out, exit_code>>
vars == <<file, lines, lineno, self, ppc,
          base, entries, pc, master, lproj_dirs, idx, target, global_issues,
          out, exit_code>>

-----------------------------------------------------------------------------
(* Characters *)

Q == "\""
BS == "\\"
NL == "\n"
TAB == "\t"

Whitespace == {" ", TAB, NL}

Digits == {"0", "1", "2", "3", "4", "5", "6", "7", "8", "9"}

Range(s) == {s[j] : j \in 1..Len(s)}

\* the character at position i, "" past either end
At(s, i) == IF i >= 1 /\ i <= Len(s) THEN s[i] ELSE ""

\* \s* from position i: the position of the first character that is not whitespace
RECURSIVE SkipSpace(_, _)
SkipSpace(s, i) ==
    IF i <= Len(s) /\ s[i] \in Whitespace THEN SkipSpace(s, i + 1) ELSE i

\* [0-9]* from position i
RECURSIVE SkipDigits(_, _)
SkipDigits(s, i) ==
    IF i <= Len(s) /\ s[i] \in Digits THEN SkipDigits(s, i + 1) ELSE i

\* (?:[^"\\]|\\.)* from position i: the position where it stops.  A backslash
\* takes the next character with it unless that is "\n" (. does not match it).
RECURSIVE ScanBody(_, _)
ScanBody(s, i) ==
    IF i > Len(s) THEN i
    ELSE IF s[i] = Q THEN i
    ELSE IF s[i] = BS
         THEN IF i + 1 <= Len(s) /\ s[i + 1] /= NL THEN ScanBody(s, i + 2) ELSE i
    ELSE ScanBody(s, i + 1)

\* (//.*)?$ from position i, reached after \s*
TrailingComment(s, i) ==
    \/ i > Len(s)
    \/ /\ At(s, i) = "/"
       /\ At(s, i + 1) = "/"
       /\ \A j \in (i + 2)..Len(s) : s[j] = NL => j = Len(s)

NoMatch == [matched |-> FALSE, key |-> <<>>, value |-> <<>>]

\* valid_line_pattern.match(line): ^\s*"(key)"\s*=\s*"(value)"\s*;\s*(//.*)?$
valid_line_pattern(line) ==
    LET k0 == SkipSpace(line, 1)
        k1 == ScanBody(line, k0 + 1)
        eq == SkipSpace(line, k1 + 1)
        v0 == SkipSpace(line, eq + 1)
        v1 == ScanBody(line, v0 + 1)
        sc == SkipSpace(line, v1 + 1)
        tl == SkipSpace(line, sc + 1)
    IN  IF /\ At(line, k0) = Q
           /\ k1 > k0 + 1
           /\ At(line, k1) = Q
           /\ At(line, eq) = "="
           /\ At(line, v0) = Q
           /\ At(line, v1) = Q
           /\ At(line, sc) = ";"
           /\ TrailingComment(line, tl)
        THEN [matched |-> TRUE,
              key |-> SubSeq(line, k0 + 1, k1 - 1),
              value |-> SubSeq(line, v0 + 1, v1 - 1)]
        ELSE NoMatch

\* line.strip()
RECURSIVE RStrip(_)
RStrip(s) ==
    IF Len(s) > 0 /\ s[Len(s)] \in Whitespace THEN RStrip(SubSeq(s, 1, Len(s) - 1)) ELSE s

strip(s) == LET t == RStrip(s) IN SubSeq(t, SkipSpace(t, 1), Len(t))

\* comment_pattern.match(s): ^\s*(/\*|//|\*)
comment_pattern(s) ==
    LET j == SkipSpace(s, 1)
    IN  \/ At(s, j) = "*"
        \/ At(s, j) = "/" /\ At(s, j + 1) \in {"*", "/"}

\* empty_pattern.match(s): ^\s*$
empty_pattern(s) == SkipSpace(s, 1) > Len(s)

-----------------------------------------------------------------------------
(* LocFile *)

NewLocFile == [kv_map |-> <<>>, line_map |-> <<>>, errors |-> <<>>, warnings |-> <<>>]

Put(f, k, v) == [x \in DOMAIN f \cup {k} |-> IF x = k THEN v ELSE f[x]]

FileNotFound == [kind |-> "File not found.", lineno |-> 0, text |-> <<>>]
DuplicateKey(n, key) == [kind |-> "Duplicate key found", lineno |-> n, text |-> key]
MalformedSyntax(n, stripped) == [kind |-> "Malformed syntax", lineno |-> n, text |-> stripped]

\* ParseLine with a duplicate key overwriting the first occurrence
ParseLine_Overwrite(loc, line, n) ==
    LET line_stripped == strip(line)
        match == valid_line_pattern(line)
    IN  IF empty_pattern(line) THEN loc
        ELSE IF comment_pattern(line_stripped) THEN loc
        ELSE IF match.matched
             THEN IF match.key \in DOMAIN loc.kv_map
                  THEN [loc EXCEPT !.errors = Append(@, DuplicateKey(n, match.key)),
                                   !.kv_map = Put(@, match.key, match.value),
                                   !.line_map = Put(@, match.key, n)]
                  ELSE [loc EXCEPT !.kv_map = Put(@, match.key, match.value),
                                   !.line_map = Put(@, match.key, n)]
        ELSE IF Q \in Range(line) /\ "=" \in Range(line)
             THEN [loc EXCEPT !.errors = Append(@, MalformedSyntax(n, line_stripped))]
        ELSE loc

\* ParseLine reporting a malformed line with the index i of enumerate, not lineno
ParseLine_ZeroBased(loc, line, n) ==
    LET line_stripped == strip(line)
        match == valid_line_pattern(line)
    IN  IF empty_pattern(line) THEN loc
        ELSE IF comment_pattern(line_stripped) THEN loc
        ELSE IF match.matched
             THEN IF match.key \in DOMAIN loc.kv_map
                  THEN [loc EXCEPT !.errors = Append(@, DuplicateKey(n, match.key))]
                  ELSE [loc EXCEPT !.kv_map = Put(@, match.key, match.value),
                                   !.line_map = Put(@, match.key, n)]
        ELSE IF Q \in Range(line) /\ "=" \in Range(line)
             THEN [loc EXCEPT !.errors = Append(@, MalformedSyntax(n - 1, line_stripped))]
        ELSE loc

\* the body of the for loop of parse, for one line
ParseLine(loc, line, n) ==
    LET line_stripped == strip(line)
        match == valid_line_pattern(line)
    IN  IF empty_pattern(line) THEN loc
        ELSE IF comment_pattern(line_stripped) THEN loc
        ELSE IF match.matched
             THEN IF match.key \in DOMAIN loc.kv_map
                  THEN [loc EXCEPT !.errors = Append(@, DuplicateKey(n, match.key))]
                  ELSE [loc EXCEPT !.kv_map = Put(@, match.key, match.value),
                                   !.line_map = Put(@, match.key, n)]
        ELSE IF Q \in Range(line) /\ "=" \in Range(line)
             THEN [loc EXCEPT !.errors = Append(@, MalformedSyntax(n, line_stripped))]
        ELSE loc

\* f.readlines()
readlines(content) == [j \in 1..Len(content) |-> content[j] \o <<NL>>]

RECURSIVE ParseLines(_, _, _)
ParseLines(loc, ls, n) ==
    IF n >= Len(ls) THEN loc ELSE ParseLines(ParseLine(loc, ls[n + 1], n + 1), ls, n + 1)

\* LocFile(path, language): the constructor runs parse to its end
LocFile(f) ==
    IF ~f.exists
    THEN [NewLocFile EXCEPT !.errors = <<FileNotFound>>]
    ELSE ParseLines(NewLocFile, readlines(f.content), 0)

-----------------------------------------------------------------------------
(* get_placeholders *)

\* %[0-9]*\.?[0-9]*[d@fs] at position i: the position of its last character, 0 if none
MatchPlaceholder(s, i) ==
    IF At(s, i) /= "%" THEN 0
    ELSE LET d1 == SkipDigits(s, i + 1)
             dt == IF At(s, d1) = "." THEN d1 + 1 ELSE d1
             d2 == SkipDigits(s, dt)
         IN  IF At(s, d2) \in {"d", "@", "f", "s"} THEN d2 ELSE 0

RECURSIVE FindAll(_, _)
FindAll(s, i) ==
    IF i > Len(s) THEN <<>>
    ELSE LET e == MatchPlaceholder(s, i)
         IN  IF e = 0 THEN FindAll(s, i + 1)
             ELSE <<SubSeq(s, i, e)>> \o FindAll(s, e + 1)

get_placeholders(text) == FindAll(text, 1)

\* code points of the characters that can occur in a placeholder token
Code == [c \in {"%", ".", "@", "d", "f", "s"} \cup Digits |->
            CASE c = "%" -> 37 [] c = "." -> 46 [] c = "@" -> 64
              [] c = "d" -> 100 [] c = "f" -> 102 [] c = "s" -> 115
              [] c = "0" -> 48 [] c = "1" -> 49 [] c = "2" -> 50 [] c = "3" -> 51
              [] c = "4" -> 52 [] c = "5" -> 53 [] c = "6" -> 54 [] c = "7" -> 55
              [] c = "8" -> 56 [] c = "9" -> 57]

\* a <= b for strings, as Python compares them
RECURSIVE StrLeq(_, _)
StrLeq(a, b) ==
    IF Len(a) = 0 THEN TRUE
    ELSE IF Len(b) = 0 THEN FALSE
    ELSE IF Code[Head(a)] < Code[Head(b)] THEN TRUE
    ELSE IF Code[Head(a)] > Code[Head(b)] THEN FALSE
    ELSE StrLeq(Tail(a), Tail(b))

RECURSIVE Insert(_, _)
Insert(x, s) ==
    IF Len(s) = 0 THEN <<x>>
    ELSE IF StrLeq(x, Head(s)) THEN <<x>> \o s
    ELSE <<Head(s)>> \o Insert(x, Tail(s))

RECURSIVE sorted(_)
sorted(s) == IF Len(s) = 0 THEN <<>> ELSE Insert(Head(s), sorted(Tail(s)))

-----------------------------------------------------------------------------
(* Inputs of one parse *)

MaxParseLines == 3
MaxRawLen == 2

Entry(k, v) == <<Q>> \o k \o <<Q, " ", "=", " ", Q>> \o v \o <<Q, ";">>

ParseLineSet ==
    { Entry(<<"a">>, <<"x">>),
      Entry(<<"a">>, <<"y">>),
      Entry(<<"b">>, <<"x">>),
      <<" ", TAB>>,
      <<"/", "/">> \o Entry(<<"a">>, <<"y">>),
      <<" ", "*", " ">> \o Entry(<<"b">>, <<"y">>),
      <<Q, "a", Q, " ", "=", " ", Q, "x", Q>>,
      <<"a", ";">>,
      <<" ", Q, "a", BS, Q, "b", Q, "=", Q, Q, " ", ";", " ", "/", "/", "c">> }

RawAlphabet == {Q, "=", ";", " ", "a", "/", "*", BS}

Template == <<Q, "a", Q, "=", Q, "b", Q, ";", "/", "/", "c">>

\* one character of a well-formed line replaced, and one character removed
MutatedLines ==
    {[Template EXCEPT ![p] = c] : p \in 1..Len(Template), c \in RawAlphabet}
    \cup {SubSeq(Template, 1, p - 1) \o SubSeq(Template, p + 1, Len(Template)) :
            p \in 1..Len(Template)}

SeqsUpTo(S, n) == UNION {[1..m -> S] : m \in 0..n}

ParseContents ==
    SeqsUpTo(ParseLineSet, MaxParseLines)
    \cup {<<l>> : l \in MutatedLines \cup SeqsUpTo(RawAlphabet, MaxRawLen)}

NoFile == [exists |-> FALSE, content |-> <<>>]

File(c) == [exists |-> TRUE, content |-> c]

ParseFiles == {NoFile} \cup {File(c) : c \in ParseContents}

-----------------------------------------------------------------------------
(* LocFile.parse, line by line *)

ParseIdle ==
    /\ file = NoFile
    /\ lines = <<>>
    /\ lineno = 0
    /\ self = NewLocFile
    /\ ppc = "idle"

AuditIdle ==
    /\ base = NoFile
    /\ entries = {}
    /\ pc = "idle"
    /\ master = NewLocFile
    /\ lproj_dirs = <<>>
    /\ idx = 0
    /\ target = NewLocFile
    /\ global_issues = 0
    /\ out = <<>>
    /\ exit_code = -1

InitParse ==
    /\ file \in ParseFiles
    /\ lines = <<>>
    /\ lineno = 0
    /\ self = NewLocFile
    /\ ppc = "parse"
    /\ AuditIdle

\* os.path.exists(self.path), open, readlines
ParseOpen ==
    /\ ppc = "parse"
    /\ IF ~file.exists
       THEN /\ self' = [self EXCEPT !.errors = Append(@, FileNotFound)]
            /\ ppc' = "return"
            /\ UNCHANGED lines
       ELSE /\ lines' = readlines(file.content)
            /\ ppc' = "for"
            /\ UNCHANGED self
    /\ UNCHANGED <<file, lineno>>
    /\ UNCHANGED auditVars

\* one iteration of: for i, line in enumerate(lines)
ParseFor ==
    /\ ppc = "for"
    /\ lineno < Len(lines)
    /\ lineno' = lineno + 1
    /\ self' = ParseLine(self, lines[lineno + 1], lineno + 1)
    /\ UNCHANGED <<file, lines, ppc>>
    /\ UNCHANGED auditVars

ParseReturn ==
    /\ ppc = "for"
    /\ lineno = Len(lines)
    /\ ppc' = "return"
    /\ UNCHANGED <<file, lines, lineno, self>>
    /\ UNCHANGED auditVars

NextParse == ParseOpen \/ ParseFor \/ ParseReturn

SpecParse == InitParse /\ [][NextParse]_vars

-----------------------------------------------------------------------------
(* Inputs of one audit *)

MaxTargetLines == 2

Hello == <<"H", "e", "l", "l", "o">>
HelloAt == Hello \o <<" ", "%", "@">>
Number == <<"1", "2", "3", "4", "5">>
Copyright == <<"C", "o", "p", "y", "r", "i", "g", "h", "t">>
LICENSE == <<"L", "I", "C", "E", "N", "S", "E">>
NSCopyright == <<"N", "S">> \o Copyright
Metal == <<"M", "e", "t", "a", "l">>
PolarFlux == <<"P", "o", "l", "a", "r", "F", "l", "u", "x">>
CPU == <<"C", "P", "U">>
FPS == <<"F", "P", "S">>

Unterminated == <<Q, "a", Q, " ", "=", " ", Q>> \o Hello

\* en.lproj/Localizable.strings: missing, empty, clean, with a duplicate key,
\* with a malformed line
BaseFiles ==
    { NoFile,
      File(<<>>),
      File(<<Entry(<<"a">>, HelloAt)>>),
      File(<<Entry(<<"a">>, HelloAt), Entry(<<"b">>, Number)>>),
      File(<<Entry(<<"a">>, <<"%", "d", " ", "%", "@">>), Entry(<<"b">>, Metal)>>),
      File(<<Entry(NSCopyright, HelloAt), <<"/", "/", "c">>, Entry(<<"a">>, HelloAt)>>),
      File(<<Entry(LICENSE, HelloAt), Entry(<<"a">>, HelloAt)>>),
      File(<<Entry(<<"a">>, HelloAt), Entry(<<"a">>, Hello)>>),
      File(<<Entry(<<"b">>, Metal), Unterminated>>) }

TargetLineSet ==
    { Entry(<<"a">>, HelloAt),
      Entry(<<"a">>, Hello),
      Entry(<<"a">>, <<"%", "@", " ", "%", "d">>),
      Entry(<<"b">>, Number),
      Entry(<<"b">>, Metal),
      Entry(NSCopyright, HelloAt),
      Entry(LICENSE, HelloAt),
      Unterminated }

\* <lang>.lproj/Localizable.strings
TargetFiles == {NoFile} \cup {File(c) : c \in SeqsUpTo(TargetLineSet, MaxTargetLines)}

\* the parse of every file an audit can meet, computed once
Parsed == [f \in BaseFiles \cup TargetFiles |-> LocFile(f)]

\* a name in the Resources directory
Name(stem, ext) == [stem |-> stem, ext |-> ext]

TargetNames == {Name("de", ".lproj"), Name("ja", ".lproj")}

\* the names the model knows, in the order sort() gives them
NameOrder ==
    <<Name("de", ".lproj"), Name("en", ".lproj"), Name("ja", ".lproj"), Name("notes", ".txt")>>

-----------------------------------------------------------------------------
(* run_audit *)

UntranslatedMinLen == 4

isdigit(s) == Len(s) > 0 /\ \A j \in 1..Len(s) : s[j] \in Digits

\* sub in s
Contains(s, sub) ==
    \E j \in 0..(Len(s) - Len(sub)) : SubSeq(s, j + 1, j + Len(sub)) = sub

\* PlaceholderMismatch comparing the token lists as found, unsorted
PlaceholderMismatch_Unsorted(m_val, t_val) ==
    get_placeholders(m_val) /= get_placeholders(t_val)

\* A. Placeholder mismatch
PlaceholderMismatch(m_val, t_val) ==
    sorted(get_placeholders(m_val)) /= sorted(get_placeholders(t_val))

is_cjk(lang) == lang \in {"zh-Hans", "zh-Hant", "ja", "ko"}

\* is_safe_word with "Metal" left out of the list
is_safe_word_NoMetal(m_val) == m_val \in {PolarFlux, CPU, FPS}

is_safe_word(m_val) == m_val \in {PolarFlux, CPU, FPS, Metal}

\* PotentiallyUntranslated applied to every language
PotentiallyUntranslated_AnyLanguage(lang, k, m_val, t_val) ==
    /\ Len(m_val) > UntranslatedMinLen
    /\ ~isdigit(m_val)
    /\ m_val = t_val
    /\ ~is_safe_word(m_val)
    /\ ~Contains(k, Copyright)
    /\ ~Contains(k, LICENSE)

\* B. Untranslated content heuristics
PotentiallyUntranslated(lang, k, m_val, t_val) ==
    /\ Len(m_val) > UntranslatedMinLen
    /\ ~isdigit(m_val)
    /\ m_val = t_val
    /\ is_cjk(lang)
    /\ ~is_safe_word(m_val)
    /\ ~Contains(k, Copyright)
    /\ ~Contains(k, LICENSE)

\* [d for d in os.listdir(resources_dir) if d.endswith('.lproj') and d != 'en.lproj'], sorted
ListTargets(names) ==
    SelectSeq(NameOrder, LAMBDA d : d \in names /\ d.ext = ".lproj" /\ d /= Name("en", ".lproj"))

\* lproj_dir.replace('.lproj', '')
LangCode(d) == d.stem

\* what one iteration prints: the parse errors of a broken target, or the findings
Report(lang, errs, miss, extra, mism, untr) ==
    [lang |-> lang, errors |-> errs, missing |-> miss, extras |-> extra,
     mismatch |-> mism, untranslated |-> untr]

Init ==
    /\ ParseIdle
    /\ base \in BaseFiles
    /\ entries \in {S \cup {Name("en", ".lproj"), Name("notes", ".txt")} : S \in SUBSET TargetNames}
    /\ pc = "start"
    /\ master = NewLocFile
    /\ lproj_dirs = <<>>
    /\ idx = 0
    /\ target = NewLocFile
    /\ global_issues = 0
    /\ out = <<>>
    /\ exit_code = -1

\* if not os.path.exists(base_path): sys.exit(1)
CheckBase ==
    /\ pc = "start"
    /\ IF ~base.exists
       THEN exit_code' = 1 /\ pc' = "exit"
       ELSE pc' = "master" /\ UNCHANGED exit_code
    /\ UNCHANGED <<base, entries, master, lproj_dirs, idx, target, global_issues, out>>
    /\ UNCHANGED parseVars

\* master = LocFile(base_path, base_lang); if master.errors: sys.exit(1)
LoadMaster ==
    /\ pc = "master"
    /\ master' = Parsed[base]
    /\ IF master'.errors /= <<>>
       THEN exit_code' = 1 /\ pc' = "exit"
       ELSE pc' = "targets" /\ UNCHANGED exit_code
    /\ UNCHANGED <<base, entries, lproj_dirs, idx, target, global_issues, out>>
    /\ UNCHANGED parseVars

\* lproj_dirs = [...]; lproj_dirs.sort(); global_issues = 0
FindTargets ==
    /\ pc = "targets"
    /\ lproj_dirs' = ListTargets(entries)
    /\ global_issues' = 0
    /\ pc' = "for"
    /\ UNCHANGED <<base, entries, master, idx, target, out, exit_code>>
    /\ UNCHANGED parseVars

\* missing with the operands of the difference exchanged
missing_Swapped(master_keys, target_keys) == target_keys \ master_keys

\* missing = master_keys - target_keys
missing(master_keys, target_keys) == master_keys \ target_keys

\* extras = target_keys - master_keys
extras(master_keys, target_keys) == target_keys \ master_keys

\* Findings without the continue after the syntax errors
Findings_NoContinue(lang, t) ==
    LET master_keys == DOMAIN master.kv_map
        target_keys == DOMAIN t.kv_map
        common_keys == master_keys \cap target_keys
    IN  Report(lang, t.errors,
               missing(master_keys, target_keys),
               extras(master_keys, target_keys),
               {k \in common_keys : PlaceholderMismatch(master.kv_map[k], t.kv_map[k])},
               {k \in common_keys :
                   PotentiallyUntranslated(lang, k, master.kv_map[k], t.kv_map[k])})

\* what the body of the for loop prints for the target t: the parse errors of a
\* broken file and nothing else (continue), or the findings of 2. and 3.
Findings(lang, t) ==
    LET master_keys == DOMAIN master.kv_map
        target_keys == DOMAIN t.kv_map
        common_keys == master_keys \cap target_keys
    IN  IF t.errors /= <<>>
        THEN Report(lang, t.errors, {}, {}, {}, {})
        ELSE Report(lang, <<>>,
                    missing(master_keys, target_keys),
                    extras(master_keys, target_keys),
                    {k \in common_keys : PlaceholderMismatch(master.kv_map[k], t.kv_map[k])},
                    {k \in common_keys :
                        PotentiallyUntranslated(lang, k, master.kv_map[k], t.kv_map[k])})

\* Issues with the extra keys counted ("but let's count them")
Issues_CountExtras(r) ==
    IF r.errors /= <<>> THEN Len(r.errors)
    ELSE Cardinality(r.missing) + Cardinality(r.extras) + Cardinality(r.mismatch)

\* Issues with a broken target counted once, whatever its number of errors
Issues_OncePerFile(r) ==
    IF r.errors /= <<>> THEN 1
    ELSE Cardinality(r.missing) + Cardinality(r.mismatch)

\* what the body of the for loop adds to global_issues: len(target.errors), or
\* len(missing) and one for each placeholder mismatch
Issues(r) ==
    IF r.errors /= <<>> THEN Len(r.errors)
    ELSE Cardinality(r.missing) + Cardinality(r.mismatch)

\* the body of: for lproj_dir in lproj_dirs, for the file f found at file_path
AuditTarget(f) ==
    LET lang == LangCode(lproj_dirs[idx + 1])
        r == Findings(lang, Parsed[f])
    IN  /\ target' = Parsed[f]
        /\ idx' = idx + 1
        /\ out' = Append(out, r)
        /\ global_issues' = global_issues + Issues(r)

ForTarget ==
    /\ pc = "for"
    /\ idx < Len(lproj_dirs)
    /\ \E f \in TargetFiles : AuditTarget(f)
    /\ UNCHANGED <<base, entries, pc, master, lproj_dirs, exit_code>>
    /\ UNCHANGED parseVars

\* Finish reporting success whatever the issue total
Finish_AlwaysSuccess ==
    /\ pc = "for"
    /\ idx = Len(lproj_dirs)
    /\ exit_code' = 0
    /\ pc' = "exit"
    /\ UNCHANGED <<base, entries, master, lproj_dirs, idx, target, global_issues, out>>
    /\ UNCHANGED parseVars

\* if global_issues == 0: sys.exit(0) else: sys.exit(1)
Finish ==
    /\ pc = "for"
    /\ idx = Len(lproj_dirs)
    /\ exit_code' = IF global_issues = 0 THEN 0 ELSE 1
    /\ pc' = "exit"
    /\ UNCHANGED <<base, entries, master, lproj_dirs, idx, target, global_issues, out>>
    /\ UNCHANGED parseVars

Next == CheckBase \/ LoadMaster \/ FindTargets \/ ForTarget \/ Finish

Spec == Init /\ [][Next]_vars

-----------------------------------------------------------------------------
(* Properties of run_audit, checked under Spec *)

Last(q) == q[Len(q)]

\* a step of the for loop over lproj_dirs (no other action changes idx)
TargetStep == pc = "for" /\ idx' = idx + 1

\* a target has been processed, and target and Last(out) are that target's
Audited == pc \in {"for", "exit"} /\ idx >= 1

\* what a report adds to the issue total, as specified
Counted(r) ==
    IF r.errors /= <<>> THEN Len(r.errors)
    ELSE Cardinality(r.missing) + Cardinality(r.mismatch)

RECURSIVE SumCounted(_)
SumCounted(q) == IF Len(q) = 0 THEN 0 ELSE Counted(Head(q)) + SumCounted(Tail(q))

\* the multiset of the elements of a sequence
BagOf(q) == [x \in Range(q) |-> Cardinality({j \in 1..Len(q) : q[j] = x})]

\* C1: the process exits with code 0 only if the base file exists, parsed with no
\* error and no target produced a counted issue; a missing base file, a base file
\* with a parse error, or any counted issue in any target gives a non-zero code.
C1_ExitCode ==
    pc = "exit" =>
        LET clean == base.exists /\ master.errors = <<>>
            issues == \E j \in 1..Len(out) :
                         \/ out[j].errors /= <<>>
                         \/ out[j].missing /= {}
                         \/ out[j].mismatch /= {}
        IN  /\ exit_code = 0 => clean /\ ~issues
            /\ ~clean \/ issues => exit_code > 0
            /\ base.exists => master = LocFile(base)

C1_Witness ==
    /\ pc = "exit"
    /\ exit_code = 0
    /\ Len(out) = 2
    /\ master.kv_map /= <<>>

\* C2 as stated: a target that is an identical copy of the cleanly parsed base file,
\* under any language tag, is reported with no missing key, no extra key, no
\* placeholder mismatch and no untranslated-value warning, and a run with only
\* such a target exits with code 0.
C2_IdenticalCopyNoWarning ==
    /\ Audited /\ target = master =>
          /\ Last(out).errors = <<>>
          /\ Last(out).missing = {}
          /\ Last(out).extras = {}
          /\ Last(out).mismatch = {}
          /\ Last(out).untranslated = {}
    /\ pc = "exit" /\ Len(out) = 1 /\ target = master => exit_code = 0

\* C2 amended: an identical copy of the base file is reported with no missing key,
\* no extra key and no placeholder mismatch and adds nothing to the issue total,
\* under any language tag; it has no untranslated-value warning when the language
\* tag is not a token-script one; a run whose targets add nothing ends with code 0.
C2_IdenticalCopy ==
    /\ [][TargetStep /\ target' = master =>
            /\ Last(out').errors = <<>>
            /\ Last(out').missing = {}
            /\ Last(out').extras = {}
            /\ Last(out').mismatch = {}
            /\ Last(out').lang \notin {"zh-Hans", "zh-Hant", "ja", "ko"}
                  => Last(out').untranslated = {}
            /\ global_issues' = global_issues]_vars
    /\ [](pc = "exit" /\ Len(out) > 0 /\ global_issues = 0 => exit_code = 0)

C2_Witness ==
    /\ pc = "exit"
    /\ exit_code = 0
    /\ Len(out) = 2
    /\ target = master
    /\ Cardinality(DOMAIN master.kv_map) = 2
    /\ out[1].extras = {} /\ out[1].missing = {}
    /\ out[2].lang = "ja"
    /\ out[2].untranslated /= {}

\* C3: for a target that parsed with no error, the keys reported as missing are
\* exactly the keys of the base mapping that the target mapping lacks, and each adds
\* one to the issue total; a target missing one key and with no other defect
\* yields an issue count of 1.
C3_MissingKeys ==
    [][TargetStep /\ target'.errors = <<>> =>
          LET r == Last(out')
              lacks == {k \in DOMAIN master.kv_map : k \notin DOMAIN target'.kv_map}
          IN  /\ r.missing = lacks
              /\ global_issues' - global_issues - Cardinality(r.mismatch) = Cardinality(lacks)
              /\ Len(out) = 0 /\ Cardinality(lacks) = 1 /\ r.mismatch = {}
                    => global_issues' = 1]_vars

C3_Witness ==
    /\ Audited
    /\ Len(out) = 1
    /\ target.errors = <<>>
    /\ Cardinality(Last(out).missing) = 1
    /\ Last(out).mismatch = {}
    /\ Last(out).extras /= {}
    /\ global_issues = 1

\* C4: for a target that parsed with no error and every key common to base and
\* target, a placeholder mismatch is reported, and counted once, exactly when the
\* multiset of placeholder tokens of the base value differs from that of the
\* target value, whatever the order of the tokens in the values.
C4_PlaceholderMismatch ==
    [][TargetStep /\ target'.errors = <<>> =>
          LET r == Last(out')
              common == DOMAIN master.kv_map \cap DOMAIN target'.kv_map
              differ == {k \in common :
                            BagOf(get_placeholders(master.kv_map[k]))
                               /= BagOf(get_placeholders(target'.kv_map[k]))}
          IN  /\ r.mismatch = differ
              /\ global_issues' - global_issues - Cardinality(r.missing)
                    = Cardinality(differ)]_vars

\* the same tokens in another order: no mismatch; a token dropped: a mismatch
C4_Witness ==
    /\ Audited
    /\ Len(out) = 2
    /\ target.errors = <<>>
    /\ out[2].mismatch = {}
    /\ \E k \in DOMAIN master.kv_map \cap DOMAIN target.kv_map :
          /\ Len(get_placeholders(master.kv_map[k])) = 2
          /\ get_placeholders(master.kv_map[k]) /= get_placeholders(target.kv_map[k])
    /\ out[1].mismatch /= {}
    /\ out[1].errors = <<>>

C6_BrokenTargetSkipped ==
    [][TargetStep /\ target'.errors /= <<>> =>
          /\ Last(out').errors = target'.errors
          /\ Last(out').missing = {}
          /\ Last(out').extras = {}
          /\ Last(out').mismatch = {}
          /\ Last(out').untranslated = {}
          /\ pc' = "for"
          /\ exit_code' = -1
          /\ lproj_dirs' = lproj_dirs]_vars

\* a broken target that lacks a key of the base, followed by an audited one
C6_Witness ==
    /\ Audited
    /\ Len(out) = 2
    /\ out[1].errors /= <<>>
    /\ out[2].errors = <<>>
    /\ out[2].missing = {}
    /\ master.kv_map /= <<>>

\* C8: for a target in zh-Hans, zh-Hant, ja or ko that parsed with no error, the
\* untranslated-value warnings are those of the common keys whose base value is
\* longer than 4 characters, not all digits, equal to the target value and not in
\* the exemption list, and whose name contains neither "Copyright" nor "LICENSE";
\* a target in any other language gets none.
C8_Untranslated ==
    Audited /\ target.errors = <<>> =>
        LET lang == Last(out).lang
            common == DOMAIN master.kv_map \cap DOMAIN target.kv_map
            HasWord(k, w) ==
                \E a, b \in 0..Len(k) : a + Len(w) + b = Len(k) /\ SubSeq(k, a + 1, a + Len(w)) = w
            flagged == {k \in common :
                          /\ Len(master.kv_map[k]) >= 5
                          /\ \E j \in 1..Len(master.kv_map[k]) : master.kv_map[k][j] \notin Digits
                          /\ master.kv_map[k] = target.kv_map[k]
                          /\ master.kv_map[k] \notin {PolarFlux, CPU, FPS, Metal}
                          /\ ~HasWord(k, Copyright)
                          /\ ~HasWord(k, LICENSE)}
        IN  Last(out).untranslated =
                IF lang \in {"zh-Hans", "zh-Hant", "ja", "ko"} THEN flagged ELSE {}

\* in ja: one key warned, the identical value of the key NSCopyright not warned
C8_Witness ==
    /\ Audited
    /\ target.errors = <<>>
    /\ Last(out).lang = "ja"
    /\ Last(out).untranslated = {<<"a">>}
    /\ NSCopyright \in DOMAIN target.kv_map \cap DOMAIN master.kv_map
    /\ target.kv_map[NSCopyright] = master.kv_map[NSCopyright]

-----------------------------------------------------------------------------
(* Properties of LocFile.parse, checked under SpecParse *)

\* a step of the for loop over lines (no other action changes lineno)
LineStep == ppc = "for" /\ lineno' = lineno + 1

\* the entry on line j of the file, if line j is a well-formed entry line
EntryAt(j) == valid_line_pattern(lines[j])

\* the lines up to n that are well-formed entry lines for key k
Occurrences(k, n) == {j \in 1..n : EntryAt(j).matched /\ EntryAt(j).key = k}

First(S) == CHOOSE j \in S : \A i \in S : j <= i

\* C7: a well-formed entry line whose key occurred on an earlier entry line adds a
\* duplicate-key error and leaves kv_map and line_map as they were, so each key maps
\* to the value and the line number of its first occurrence.
C7_DuplicateKey ==
    [][LineStep =>
          LET n == lineno'
              e == EntryAt(n)
          IN  /\ e.matched /\ Occurrences(e.key, n - 1) /= {} =>
                    /\ self'.errors = Append(self.errors, DuplicateKey(n, e.key))
                    /\ self'.kv_map = self.kv_map
                    /\ self'.line_map = self.line_map
              /\ DOMAIN self'.kv_map = {k \in {EntryAt(j).key : j \in 1..n} : Occurrences(k, n) /= {}}
              /\ DOMAIN self'.line_map = DOMAIN self'.kv_map
              /\ \A k \in DOMAIN self'.kv_map :
                    /\ self'.line_map[k] = First(Occurrences(k, n))
                    /\ self'.kv_map[k] = EntryAt(First(Occurrences(k, n))).value]_vars

\* the key on lines 1 and 3, with another value on line 3
C7_Witness ==
    /\ ppc = "return"
    /\ Len(lines) = 3
    /\ self.errors = <<DuplicateKey(3, <<"a">>)>>
    /\ self.line_map[<<"a">>] = 1
    /\ self.kv_map[<<"a">>] = <<"x">>
    /\ EntryAt(3).value = <<"y">>

Blank(line) == \A j \in 1..Len(line) : line[j] \in Whitespace

\* the first characters after the leading whitespace are //, /* or *
CommentLine(line) ==
    \E j \in 1..Len(line) :
        /\ \A i \in 1..(j - 1) : line[i] \in Whitespace
        /\ \/ line[j] = "*"
           \/ j < Len(line) /\ line[j] = "/" /\ line[j + 1] \in {"/", "*"}

\* C9: a blank line or a comment line changes nothing; a line that is neither and
\* fails the entry pattern adds a malformed-syntax error with its 1-based line
\* number if it contains both a double quote and an equals sign, and changes
\* nothing otherwise.
C9_MalformedLine ==
    [][LineStep =>
          LET n == lineno'
              line == lines[n]
              has(c) == \E j \in 1..Len(line) : line[j] = c
          IN  IF Blank(line) \/ CommentLine(line) THEN self' = self
              ELSE ~valid_line_pattern(line).matched =>
                      IF has(Q) /\ has("=")
                      THEN /\ Len(self'.errors) = Len(self.errors) + 1
                           /\ Last(self'.errors).kind = "Malformed syntax"
                           /\ Last(self'.errors).lineno = n
                           /\ SubSeq(self'.errors, 1, Len(self.errors)) = self.errors
                           /\ self'.kv_map = self.kv_map
                           /\ self'.line_map = self.line_map
                      ELSE self' = self]_vars

\* a comment with a quote and an equals sign, an entry, a malformed line, a line
\* without quote or equals sign
C9_Witness ==
    /\ ppc = "return"
    /\ Len(lines) = 3
    /\ CommentLine(lines[1]) /\ Q \in Range(lines[1]) /\ "=" \in Range(lines[1])
    /\ ~Blank(lines[3]) /\ ~CommentLine(lines[3]) /\ Q \notin Range(lines[3])
    /\ Len(self.errors) = 1
    /\ self.errors[1].kind = "Malformed syntax"
    /\ self.errors[1].lineno = 2

=============================================================================
